---- MODULE Spec2Model ----
(***************************************************************************)
(* A model of napalm_ros: the reference-counted SshClient handle           *)
(* (ssh_client.py), the SshHostKey store it resolves its host key from     *)
(* (models.py) and the ROSDriver calls get_config and                      *)
(* load_replace_candidate built on the handle (ros.py), together with the  *)
(* device those calls talk to.                                             *)
(***************************************************************************)
EXTENDS Integers, Sequences, FiniteSets, TLC

\* ------------------------------------------------------------------ bounds
\* paramiko.SSHClient objects one handle may create in a run of the model
MaxClients == 2
\* largest value of _open_count the model lets open() reach
MaxCount == 2
\* how far below zero the model lets close() take _open_count
MaxUnderflow == 1
\* number of load_replace_candidate invocations (and so of script file names)
MaxRuns == 1

\* ------------------------------------------------------------------ values
NoKey == "none"
Keys == {"ecdsa-sha2-nistp256 AAAA", "ssh-rsa BBBB"}
NoArg == "None"
Sections == {"s1"}
Configs == SUBSET Sections
Marker == "SUCCESS"
\* 0 is a path user code writes to; 1..MaxRuns are the script-<time>.rsc names
FileNames == 0..MaxRuns
ClientIds == 1..MaxClients
NoFile == [present |-> FALSE, data |-> <<>>]

VARIABLES
    open_count,   \* SshClient._open_count
    client,       \* SshClient.client: 0 is None, else the id of a paramiko.SSHClient
    conn,         \* state of every paramiko.SSHClient the handle created
    host_key,     \* SshClient.host_key
    store,        \* SshHostKey row of the handle's hostname (its host_key text)
    serverKey,    \* host key the device presents
    files,        \* the device's file system
    devConfig,    \* the device's running configuration
    clock,        \* datetime.now(), counted in deployments
    pc,           \* position of the driver call in progress
    ctx,          \* the driver call in progress
    desired,      \* load_replace_candidate: config
    current,      \* load_replace_candidate: current_config
    file_name,    \* load_replace_candidate: file_name
    stdout,       \* captured standard output of the last exec of the call
    stderr,       \* captured standard error of the last exec of the call
    exit_code,    \* exit status of the last exec of the call
    outcome,      \* "ok", "none" (running) or the exception the call raises
    err_file,     \* file named in the raised exception's message
    dev_log,      \* what the call in progress sent to the device, in order
    entry_count,  \* _open_count when the call in progress was entered
    ran,          \* the run() call in progress: its inputs, its value or error
    sftp,         \* SFTP channels the call in progress opened and closed
    events        \* every step of the driver call in progress, in order

\* the SshHostKey table and the callers of SshHostKey.objects.for_hostname
VARIABLES
    rows,         \* the SshHostKey table: rows [pk, hostname, host_key]
    kpc,          \* position of each caller inside for_hostname
    kobj,         \* each caller's SshHostKey object (pk 0: not saved yet)
    kres,         \* result of each caller's call
    sock,         \* get_fingerprint: each caller's ssh_socket
    transport,    \* get_fingerprint: each caller's paramiko.Transport
    koffer,       \* host-key algorithms the server offered each caller
    fetches,      \* get_fingerprint calls made by each caller's call
    saves         \* save() calls made by each caller's call

hvars == <<open_count, client, conn>>
kvars == <<host_key, store>>
dvars == <<files, devConfig>>
fvars == <<desired, current, file_name, stdout, stderr, exit_code, err_file>>
svars == <<rows, kpc, kobj, kres, sock, transport, koffer, fetches, saves>>
mvars == <<open_count, client, conn, host_key, store, serverKey, files, devConfig,
           clock, pc, ctx, desired, current, file_name, stdout, stderr, exit_code,
           outcome, err_file, dev_log, entry_count, ran, sftp,
           events>>
cvars == <<ran, sftp>>
vars == <<mvars, svars>>

\* ------------------------------------------------------------- SshClient
NumCreated == Cardinality({i \in ClientIds : conn[i] # "none"})

\* a connect() that accepts whatever key the server presents
ConnectOutcomes_anykey(hk) == {"SocketError", "ok", "AuthenticationException"}

\* paramiko's connect(): the socket, then the host-key check against the one
\* key added for the host, then authentication
ConnectOutcomes(hk) ==
    {"SocketError"} \cup
    (IF serverKey = hk THEN {"ok", "AuthenticationException"}
                       ELSE {"BadHostKeyException"})

\* connect() sends the password or signs with the private key only once the
\* host-key check has passed: the results that lie after that point
CredentialsSent(r) == r \in {"ok", "AuthenticationException"}

\* SshClient.open with self.host_key = hk, ending with result r
open(hk, r) ==
    /\ open_count < MaxCount
    /\ open_count' = open_count + 1
    /\ IF hk = NoKey
       THEN /\ r = "AttributeError"
            /\ UNCHANGED <<client, conn>>
       ELSE /\ NumCreated < MaxClients
            /\ r \in ConnectOutcomes(hk)
            /\ client' = NumCreated + 1
            /\ conn' = [conn EXCEPT ![NumCreated + 1] =
                            IF r = "ok" THEN "open" ELSE "failed"]

\* SshClient.close, ending with result r
close(r) ==
    /\ open_count > -MaxUnderflow
    /\ open_count' = open_count - 1
    /\ IF open_count - 1 # 0
       THEN r = "ok" /\ UNCHANGED <<client, conn>>
       ELSE IF client = 0
            THEN r = "AttributeError" /\ UNCHANGED <<client, conn>>
            ELSE /\ r = "ok"
                 /\ conn' = [conn EXCEPT ![client] = "closed"]
                 /\ UNCHANGED client

\* SshHostKeyManager.for_hostname and SshHostKey.fetch_host_key for the
\* handle's host: the key returned (k) and the result r
for_hostname(k, r) ==
    IF store # NoKey
    THEN k = store /\ r = "ok" /\ UNCHANGED store
    ELSE \/ k = serverKey /\ r = "ok" /\ store' = serverKey
         \/ k = NoKey /\ r = "FetchError" /\ UNCHANGED store

\* an __enter__ that counts the acquire before it looks the key up
enter_countfirst(r) ==
    IF host_key # NoKey
    THEN open(host_key, r) /\ UNCHANGED kvars
    ELSE \E k \in Keys \cup {NoKey}, fr \in {"ok", "FetchError"} :
            /\ for_hostname(k, fr)
            /\ IF fr = "ok"
               THEN host_key' = k /\ open(k, r)
               ELSE /\ r = fr
                    /\ open_count < MaxCount
                    /\ open_count' = open_count + 1
                    /\ UNCHANGED <<host_key, client, conn>>

\* SshClient.__enter__
enter(r) ==
    IF host_key # NoKey
    THEN open(host_key, r) /\ UNCHANGED kvars
    ELSE \E k \in Keys \cup {NoKey}, fr \in {"ok", "FetchError"} :
            /\ for_hostname(k, fr)
            /\ IF fr = "ok"
               THEN host_key' = k /\ open(k, r)
               ELSE r = fr /\ UNCHANGED <<host_key, open_count, client, conn>>

\* SshClient.__exit__
exit(r) == close(r)

\* SshClient._assert_open
assert_open == open_count # 0

\* what paramiko answers when the handle's client is asked for a channel
Usable == client # 0 /\ conn[client] = "open"

\* results of an operation that needs a channel of the handle's client;
\* "sent" stands for the request reaching the device
ChannelOutcomes ==
    IF ~assert_open THEN {"SshClientNotOpen"}
    ELSE IF client = 0 THEN {"AttributeError"}
    ELSE IF ~Usable THEN {"SSHException"}
    ELSE {"sent", "SSHException"}

\* SshClient.write_file(path, data), ending with result r: the SFTP channel,
\* then open(path, "w") and write; a failed write leaves the file created empty
write_file(path, data, r) ==
    /\ r \in (ChannelOutcomes \ {"sent"}) \cup
             (IF "sent" \in ChannelOutcomes THEN {"ok", "IOError"} ELSE {})
    /\ \/ /\ r = "ok"
          /\ files' = [files EXCEPT ![path] = [present |-> TRUE, data |-> data]]
       \/ /\ r = "IOError"
          /\ files' \in {files, [files EXCEPT ![path] = [present |-> TRUE, data |-> <<>>]]}
       \/ /\ r \notin {"ok", "IOError"}
          /\ files' = files

\* SshClient.read_file(path), ending with result r
read_file(path, r) ==
    r \in (ChannelOutcomes \ {"sent"}) \cup
          (IF "sent" \in ChannelOutcomes
           THEN (IF files[path].present THEN {"ok"} ELSE {}) \cup {"IOError"}
           ELSE {})

\* SshClient.exec(command), ending with result r ("ok": the command ran and
\* its streams and exit status came back)
exec(r) ==
    r \in (ChannelOutcomes \ {"sent"}) \cup
          (IF "sent" \in ChannelOutcomes THEN {"ok"} ELSE {})

run_ignore_optout(r, status, raise_exceptions) ==
    IF r # "ok" THEN r
    ELSE IF status = 0 THEN "ok"
    ELSE "SshCommandException"

\* SshClient.run(command, raise_exceptions) given exec's result r and the
\* command's exit status
run(r, status, raise_exceptions) ==
    IF r # "ok" THEN r
    ELSE IF status = 0 \/ ~raise_exceptions THEN "ok"
    ELSE "SshCommandException"

\* ---- the streams of a command, as sequences of characters
Whitespace == {" ", "\n"}

RECURSIVE LStrip(_)
LStrip(s) ==
    IF s # <<>> /\ Head(s) \in Whitespace THEN LStrip(Tail(s)) ELSE s

RECURSIVE RStrip(_)
RStrip(s) ==
    IF s # <<>> /\ s[Len(s)] \in Whitespace
    THEN RStrip(SubSeq(s, 1, Len(s) - 1))
    ELSE s

\* str.strip()
Strip(s) == RStrip(LStrip(s))

\* readlines() on what is left of s, cur being the line read so far; each
\* line keeps its newline
RECURSIVE ReadLinesFrom(_, _)
ReadLinesFrom(s, cur) ==
    IF s = <<>> THEN (IF cur = <<>> THEN <<>> ELSE <<cur>>)
    ELSE IF Head(s) = "\n"
         THEN <<Append(cur, "\n")>> \o ReadLinesFrom(Tail(s), <<>>)
         ELSE ReadLinesFrom(Tail(s), Append(cur, Head(s)))

readlines(s) == ReadLinesFrom(s, <<>>)

\* run's return value: [s.strip() for s in stdout.readlines()]
run_lines(so) == [i \in 1 .. Len(readlines(so)) |-> Strip(readlines(so)[i])]

\* run's error text: stderr.read() or stdout.read()
run_error(so, se) == IF se # <<>> THEN se ELSE so

StdoutStreams == {<<>>, <<"a", " ", "\n", " ", "b">>}
StderrStreams == {<<>>, <<"e", "\n">>}

NoRun == [exec |-> "none", stdout |-> <<>>, stderr |-> <<>>, status |-> 0,
          raise_exceptions |-> TRUE, lines |-> <<>>, error |-> <<>>]

\* the record of one run(command, raise_exceptions) call whose exec ended
\* with r, the command leaving streams so, se and an exit status
RunCall(r, so, se, status, raise_exceptions) ==
    LET res == run(r, status, raise_exceptions) IN
    IF r # "ok" THEN [NoRun EXCEPT !.exec = r]
    ELSE [exec |-> r, stdout |-> so, stderr |-> se, status |-> status,
          raise_exceptions |-> raise_exceptions,
          lines |-> IF res = "ok" THEN run_lines(so) ELSE <<>>,
          error |-> IF res = "ok" THEN <<>> ELSE run_error(so, se)]

NoSftp == [opened |-> 0, closed |-> 0]

sftp_use_leak(r) ==
    IF r = "ok" THEN [opened |-> 1, closed |-> 1]
    ELSE IF r = "IOError" THEN [opened |-> 1, closed |-> 0]
    ELSE NoSftp

\* the SFTP channels of one write_file or read_file call that ended with
\* r: open_sftp() succeeded when r is "ok" or "IOError", and the finally
\* clause closes what it returned
sftp_use(r) ==
    IF r \in {"ok", "IOError"} THEN [opened |-> 1, closed |-> 1] ELSE NoSftp

Results ==
    {"ok", "AttributeError", "SocketError", "AuthenticationException",
     "BadHostKeyException", "FetchError", "SshClientNotOpen", "SSHException",
     "IOError", "SshCommandException"}

\* ---------------------------------------------------------------- device
\* RouterOSConfig.diff(old=...): the sections to add and to remove
Diff(config, old) == [add |-> config \ old, del |-> old \ config]

Cmd(c, a, d, f, t) == [cmd |-> c, add |-> a, del |-> d, file |-> f, text |-> t]

\* a script that never removes its own file
Script_keep(d, f) ==
    << Cmd("apply", d.add, d.del, 0, ""),
       Cmd("put", {}, {}, 0, Marker) >>

\* a script that removes its own file before the changes are applied
Script_removefirst(d, f) ==
    << Cmd("remove", {}, {}, f, ""),
       Cmd("apply", d.add, d.del, 0, ""),
       Cmd("put", {}, {}, 0, Marker) >>

\* a script whose removal command names another file
Script_wrongname(d, f) ==
    << Cmd("apply", d.add, d.del, 0, ""),
       Cmd("remove", {}, {}, 0, ""),
       Cmd("put", {}, {}, 0, Marker) >>

\* the script load_replace_candidate builds: str(diff), then
\* /file remove "<file_name>", then :put SUCCESS
Script(d, f) ==
    << Cmd("apply", d.add, d.del, 0, ""),
       Cmd("remove", {}, {}, f, ""),
       Cmd("put", {}, {}, 0, Marker) >>

\* the device running one command of a script on st = [files, config, out]
ExecCmd(c, st) ==
    CASE c.cmd = "apply"  -> [st EXCEPT !.config = (st.config \cup c.add) \ c.del]
      [] c.cmd = "remove" -> [st EXCEPT !.files[c.file] = NoFile]
      [] c.cmd = "put"    -> [st EXCEPT !.out = Append(st.out, c.text)]

CanSucceed(c, st) == c.cmd = "remove" => st.files[c.file].present

CanFail(c, st) ==
    \/ c.cmd = "apply" /\ c.add \cup c.del # {}
    \/ c.cmd = "remove" /\ ~st.files[c.file].present

RECURSIVE RunScript(_, _, _, _)
\* commands i..k of the script, run in order
RunScript(script, i, k, st) ==
    IF i > k THEN st ELSE RunScript(script, i + 1, k, ExecCmd(script[i], st))

\* what a command that fails leaves behind: a configuration change may have
\* been applied in part, and the error may or may not show on standard output
Aborted(c, st) ==
    LET cfgs == IF c.cmd = "apply"
                THEN {(st.config \cup a) \ r :
                        a \in SUBSET c.add, r \in SUBSET c.del} \
                     {(st.config \cup c.add) \ c.del}
                ELSE {st.config}
    IN {[st EXCEPT !.config = cf, !.out = o] :
            cf \in cfgs, o \in {st.out, Append(st.out, "failure")}}

\* /import "<file>": the script's commands run in order up to the first one
\* that fails
Import(script, st) ==
    UNION {IF k = Len(script)
           THEN {RunScript(script, 1, k, st)}
           ELSE Aborted(script[k + 1], RunScript(script, 1, k, st)) :
           k \in {n \in 0..Len(script) :
                    /\ \A j \in 1..n :
                          CanSucceed(script[j], RunScript(script, 1, j - 1, st))
                    /\ n < Len(script) =>
                          CanFail(script[n + 1], RunScript(script, 1, n, st))}}

\* ------------------------------------------------------------- ROSDriver
\* an optional configuration text: {} is None, {c} is the text of config c
None == {}
OptConfigs == {None} \cup {{c} : c \in Configs}
\* Python's "not x" for such an argument: None and the empty text
Falsy(x) == x = None \/ x = {{}}
Text(x) == CHOOSE c \in x : TRUE

\* files on the caller's machine holding a desired configuration
LocalFiles == [n \in {"desired.rsc", "empty.rsc"} |->
                  IF n = "desired.rsc" THEN {"s1"} ELSE {}]

\* an emptiness test that never finds the diff empty
NothingToDo_never(d) == FALSE

\* "not diff.sections"
NothingToDo(d) == d.add = {} /\ d.del = {}

Contains(out, marker) == \E i \in DOMAIN out : out[i] = marker

\* a verification that trusts the exit status
Verify_exit(so, se, ec) ==
    IF ec = 0 THEN "ok" ELSE "CommandErrorException"

\* load_replace_candidate after the exec: success = b"SUCCESS" in stdout,
\* and the exception raised without it
Verify(so, se, ec) ==
    IF Contains(so, Marker) THEN "ok" ELSE "CommandErrorException"

Frame(d, c, f, so, se, ec, ef) ==
    /\ desired' = d
    /\ current' = c
    /\ file_name' = f
    /\ stdout' = so
    /\ stderr' = se
    /\ exit_code' = ec
    /\ err_file' = ef

\* ---- the SshHostKey table and get_fingerprint

\* the concurrent callers of SshHostKey.objects.for_hostname
Procs == {"p1", "p2"}

Hosts == {"router1", "router2"}

\* transport._preferred_keys, in the order the code lists them
PreferredKeys == <<"ecdsa-sha2-nistp256", "ecdsa-sha2-nistp384",
                   "ecdsa-sha2-nistp521", "ssh-rsa">>

\* host-key algorithms a server may offer; ssh-ed25519 is not in the list above
ServerAlgos == {"ecdsa-sha2-nistp256", "ssh-rsa", "ssh-ed25519"}

Offers == (SUBSET ServerAlgos) \ {{}}

NoAlgo == "no-algo"

\* f"{printable_type} {printable_key}" for the server's key of algorithm a
KeyText(a) ==
    CASE a = "ecdsa-sha2-nistp256" -> "ecdsa-sha2-nistp256 AAAA"
      [] a = "ssh-rsa" -> "ssh-rsa BBBB"
      [] a = "ssh-ed25519" -> "ssh-ed25519 CCCC"
      [] OTHER -> NoKey

\* the algorithm named by the first word of a stored key
KeyType(text) ==
    IF \E a \in ServerAlgos : KeyText(a) = text
    THEN CHOOSE a \in ServerAlgos : KeyText(a) = text
    ELSE NoAlgo

RECURSIVE FirstIn(_, _)
FirstIn(prefs, offered) ==
    IF prefs = <<>> THEN NoAlgo
    ELSE IF Head(prefs) \in offered THEN Head(prefs)
    ELSE FirstIn(Tail(prefs), offered)

Negotiate_any(offered) == CHOOSE a \in offered : TRUE

\* start_client: the host-key algorithm agreed with a server offering
\* `offered`, the first of the preferred keys the server has; NoAlgo when
\* there is none and the handshake fails
Negotiate(offered) == FirstIn(PreferredKeys, offered)

FetchErrors == {"socket.error", "SSHException"}

\* an SshHostKey(hostname = h) that was never saved
NewHostKey(h) == [pk |-> 0, hostname |-> h, host_key |-> NoKey]

\* self.get(hostname = h), or a new object when DoesNotExist
Lookup(h, rs) ==
    IF \E r \in rs : r.hostname = h
    THEN CHOOSE r \in rs : r.hostname = h
    ELSE NewHostKey(h)

NeedsFetch_always(obj) == TRUE

\* if not host_key.host_key
NeedsFetch(obj) == obj.host_key = NoKey

FetchNext_save(res) == "save"

\* fetch_host_key: an exception of get_fingerprint leaves before save()
FetchNext(res) == IF res = "ok" THEN "save" ELSE "done"

Insertable_always(obj, rs) == TRUE

\* hostname is unique: an INSERT of a second row for a hostname is refused
Insertable(obj, rs) == \A r \in rs : r.hostname # obj.hostname

\* every caller outside for_hostname, holding nothing
StoreIdle ==
    /\ kpc = [p \in Procs |-> "idle"]
    /\ kobj = [p \in Procs |-> NewHostKey("")]
    /\ kres = [p \in Procs |-> "none"]
    /\ sock = [p \in Procs |-> "none"]
    /\ transport = [p \in Procs |-> "none"]
    /\ koffer = [p \in Procs |-> {}]
    /\ fetches = [p \in Procs |-> 0]
    /\ saves = [p \in Procs |-> 0]

\* the handle, the device and the driver after construction
MainInit ==
    /\ open_count = 0
    /\ client = 0
    /\ conn = [i \in ClientIds |-> "none"]
    /\ host_key = NoKey
    /\ store = NoKey
    /\ serverKey \in Keys
    /\ files = [n \in FileNames |-> NoFile]
    /\ devConfig \in Configs
    /\ clock = 0
    /\ pc = "idle"
    /\ ctx = "none"
    /\ desired = {}
    /\ current = {}
    /\ file_name = -1
    /\ stdout = <<>>
    /\ stderr = <<>>
    /\ exit_code = 0
    /\ outcome = "none"
    /\ err_file = -1
    /\ dev_log = <<>>
    /\ entry_count = 0
    /\ ran = NoRun
    /\ sftp = NoSftp
    /\ events = <<>>

Init ==
    /\ MainInit
    /\ rows = {}
    /\ StoreIdle

\* ---- the handle used directly by calling code: one call of op, which
\* ends with result r
Call(op, r) ==
    /\ pc = "idle"
    /\ pc' = "returned"
    /\ ctx' = op
    /\ outcome' = r
    /\ entry_count' = open_count
    /\ UNCHANGED <<serverKey, devConfig, clock, fvars, dev_log, events>>
    /\ UNCHANGED svars

UserOpen ==
    \E r \in Results :
        open(host_key, r) /\ Call("open", r) /\ UNCHANGED <<kvars, files, cvars>>

UserClose ==
    \E r \in Results :
        close(r) /\ Call("close", r) /\ UNCHANGED <<kvars, files, cvars>>

UserEnter ==
    \E r \in Results : enter(r) /\ Call("enter", r) /\ UNCHANGED <<files, cvars>>

UserExec ==
    \E r \in Results :
        exec(r) /\ Call("exec", r) /\ UNCHANGED <<hvars, kvars, files, cvars>>

UserRun ==
    \E r \in Results, status \in {0, 1}, raise_exceptions \in BOOLEAN,
       so \in StdoutStreams, se \in StderrStreams :
        /\ exec(r)
        /\ Call("run", run(r, status, raise_exceptions))
        /\ ran' = RunCall(r, so, se, status, raise_exceptions)
        /\ UNCHANGED <<hvars, kvars, files, sftp>>

UserWrite ==
    \E r \in Results :
        /\ write_file(0, <<>>, r)
        /\ sftp' = sftp_use(r)
        /\ Call("write_file", r)
        /\ UNCHANGED <<hvars, kvars, ran>>

UserRead ==
    \E r \in Results, path \in FileNames :
        /\ read_file(path, r)
        /\ sftp' = sftp_use(r)
        /\ Call("read_file", r)
        /\ UNCHANGED <<hvars, kvars, files, ran>>

\* ---- the device's host key changes (a reinstalled or replaced device)
ServerRekey ==
    /\ pc = "idle"
    /\ serverKey' \in Keys \ {serverKey}
    /\ UNCHANGED <<hvars, kvars, dvars, clock, pc, ctx, fvars, outcome, dev_log,
                   entry_count, events>>
    /\ UNCHANGED <<cvars, svars>>

\* ---- the steps of a driver call, in the order they are made

\* __enter__ ending with r: the host-key lookup made for a handle without a
\* key, then the open() that follows unless the lookup raised
EnterEvents(r) ==
    (IF host_key = NoKey THEN <<"lookup">> ELSE <<>>) \o
    (IF r = "FetchError" THEN <<>> ELSE <<"acquire">>)

\* what this step sent to the device
Sent == SubSeq(dev_log', Len(dev_log) + 1, Len(dev_log'))

\* ---- get_config: with self.ssh_client: exec("/export")
get_config ==
    /\ pc = "idle"
    /\ pc' = "gc_enter"
    /\ ctx' = "get_config"
    /\ entry_count' = open_count
    /\ outcome' = "none"
    /\ dev_log' = <<>>
    /\ events' = <<>>
    /\ UNCHANGED <<hvars, kvars, serverKey, dvars, clock, fvars>>
    /\ UNCHANGED <<cvars, svars>>

\* __enter__ of a with-block at position here: on success the body (at
\* body) runs; an exception from __enter__ leaves the call with no __exit__
WithEnter(here, body) ==
    /\ pc = here
    /\ \E r \in Results :
        /\ enter(r)
        /\ events' = events \o EnterEvents(r)
        /\ IF r = "ok"
           THEN pc' = body /\ UNCHANGED outcome
           ELSE pc' = "returned" /\ outcome' = r
    /\ UNCHANGED <<serverKey, dvars, clock, ctx, fvars, dev_log, entry_count>>
    /\ UNCHANGED <<cvars, svars>>

GcEnter == WithEnter("gc_enter", "gc_exec")

\* the body of get_config's with-block: the export, its status check and
\* the running configuration read from its output
GcExec ==
    /\ pc = "gc_exec"
    /\ \E r \in Results :
        /\ exec(r)
        /\ IF r = "ok"
           THEN /\ dev_log' = Append(dev_log, "export")
                /\ \E status \in {0, 1} :
                      IF status # 0
                      THEN outcome' = "CommandErrorException" /\ UNCHANGED current
                      ELSE outcome' = "ok" /\ current' = devConfig
           ELSE outcome' = r /\ UNCHANGED <<dev_log, current>>
    /\ events' = events \o Sent
    /\ pc' = "gc_exit"
    /\ UNCHANGED <<hvars, kvars, serverKey, dvars, clock, ctx, desired, file_name,
                   stdout, stderr, exit_code, err_file, entry_count>>
    /\ UNCHANGED <<cvars, svars>>

\* __exit__ of a with-block at position here: an exception of its own
\* replaces the body's; the call goes on at next when nothing was raised
WithExit(here, next) ==
    /\ pc = here
    /\ \E r \in Results :
        /\ exit(r)
        /\ events' = Append(events, "release")
        /\ outcome' = IF r # "ok" THEN r ELSE outcome
        /\ pc' = IF r = "ok" /\ outcome = "ok" THEN next ELSE "returned"
    /\ UNCHANGED <<kvars, serverKey, dvars, clock, ctx, fvars, dev_log, entry_count>>
    /\ UNCHANGED <<cvars, svars>>

GcExit ==
    WithExit("gc_exit",
             IF ctx = "load_replace_candidate" THEN "lrc_diff" ELSE "returned")

\* a load_replace_candidate that fetches the current configuration before
\* it looks at what it was given to deploy
load_replace_candidate_fetchfirst(filename, config, current_config) ==
    /\ pc = "idle"
    /\ clock < MaxRuns
    /\ ctx' = "load_replace_candidate"
    /\ entry_count' = open_count
    /\ dev_log' = <<>>
    /\ events' = <<>>
    /\ outcome' = "none"
    /\ desired' = IF filename # NoArg THEN LocalFiles[filename]
                  ELSE IF config = None THEN {} ELSE Text(config)
    /\ IF Falsy(current_config)
       THEN pc' = "gc_enter" /\ UNCHANGED current
       ELSE pc' = "lrc_diff" /\ current' = Text(current_config)
    /\ UNCHANGED <<hvars, kvars, serverKey, dvars, clock, file_name, stdout,
                   stderr, exit_code, err_file>>
    /\ UNCHANGED <<cvars, svars>>

\* ---- load_replace_candidate, up to the current configuration
load_replace_candidate(filename, config, current_config) ==
    /\ pc = "idle"
    /\ clock < MaxRuns
    /\ ctx' = "load_replace_candidate"
    /\ entry_count' = open_count
    /\ dev_log' = <<>>
    /\ events' = <<>>
    /\ IF filename = NoArg /\ Falsy(config)
       THEN /\ outcome' = "ValueError"
            /\ pc' = "returned"
            /\ UNCHANGED <<desired, current>>
       ELSE /\ outcome' = "none"
            /\ desired' = IF filename # NoArg THEN LocalFiles[filename]
                                              ELSE Text(config)
            /\ IF Falsy(current_config)
               THEN pc' = "gc_enter" /\ UNCHANGED current
               ELSE pc' = "lrc_diff" /\ current' = Text(current_config)
    /\ UNCHANGED <<hvars, kvars, serverKey, dvars, clock, file_name, stdout,
                   stderr, exit_code, err_file>>
    /\ UNCHANGED <<cvars, svars>>

LrcCall ==
    \E filename \in {NoArg} \cup DOMAIN LocalFiles,
       config \in OptConfigs, current_config \in OptConfigs :
        load_replace_candidate(filename, config, current_config)

\* the diff, the empty-diff return, the file name and the script
LrcDiff ==
    /\ pc = "lrc_diff"
    /\ IF NothingToDo(Diff(desired, current))
       THEN /\ outcome' = "ok"
            /\ pc' = "returned"
            /\ UNCHANGED <<clock, file_name, events>>
       ELSE /\ outcome' = "none"
            /\ events' = Append(events, "script")
            /\ clock' = clock + 1
            /\ file_name' = clock + 1
            /\ pc' = "lrc_enter"
    /\ UNCHANGED <<hvars, kvars, serverKey, dvars, ctx, desired, current, stdout,
                   stderr, exit_code, err_file, dev_log, entry_count>>
    /\ UNCHANGED <<cvars, svars>>

LrcEnter == WithEnter("lrc_enter", "lrc_write")

\* an upload whose failure does not stop the deployment
LrcWrite_goon ==
    /\ pc = "lrc_write"
    /\ \E r \in Results :
        /\ write_file(file_name, Script(Diff(desired, current), file_name), r)
        /\ sftp' = sftp_use(r)
        /\ pc' = "lrc_exec"
        /\ IF r = "ok"
           THEN dev_log' = Append(dev_log, "write") /\ UNCHANGED outcome
           ELSE outcome' = r /\ UNCHANGED dev_log
    /\ events' = events \o Sent
    /\ UNCHANGED <<hvars, kvars, serverKey, devConfig, clock, ctx, fvars, entry_count>>
    /\ UNCHANGED <<ran, svars>>

\* self.ssh_client.write_file(file_name, script)
LrcWrite ==
    /\ pc = "lrc_write"
    /\ \E r \in Results :
        /\ write_file(file_name, Script(Diff(desired, current), file_name), r)
        /\ sftp' = sftp_use(r)
        /\ IF r = "ok"
           THEN /\ pc' = "lrc_exec"
                /\ dev_log' = Append(dev_log, "write")
                /\ UNCHANGED outcome
           ELSE /\ pc' = "lrc_exit"
                /\ outcome' = r
                /\ UNCHANGED dev_log
    /\ events' = events \o Sent
    /\ UNCHANGED <<hvars, kvars, serverKey, devConfig, clock, ctx, fvars, entry_count>>
    /\ UNCHANGED <<ran, svars>>

\* self.ssh_client.exec('/import "<file_name>"') and the two reads
LrcExec ==
    /\ pc = "lrc_exec"
    /\ \E r \in Results :
        /\ exec(r)
        /\ IF r = "ok"
           THEN /\ dev_log' = Append(dev_log, "import")
                /\ \E st \in Import(files[file_name].data,
                                    [files |-> files, config |-> devConfig, out |-> <<>>]),
                      ec \in {0, 1}, se \in {<<>>, <<"failure">>} :
                      /\ files' = st.files
                      /\ devConfig' = st.config
                      /\ stdout' = st.out
                      /\ stderr' = se
                      /\ exit_code' = ec
                /\ pc' = "lrc_verify"
                /\ UNCHANGED outcome
           ELSE /\ pc' = "lrc_exit"
                /\ outcome' = r
                /\ UNCHANGED <<dev_log, dvars, stdout, stderr, exit_code>>
    /\ events' = events \o Sent
    /\ UNCHANGED <<hvars, kvars, serverKey, clock, ctx, desired, current, file_name,
                   err_file, entry_count>>
    /\ UNCHANGED <<cvars, svars>>

\* success = b"SUCCESS" in stdout; if not success: raise, naming file_name
LrcVerify ==
    /\ pc = "lrc_verify"
    /\ outcome' = Verify(stdout, stderr, exit_code)
    /\ err_file' = IF outcome' = "ok" THEN -1 ELSE file_name
    /\ events' = Append(events, "verify")
    /\ pc' = "lrc_exit"
    /\ UNCHANGED <<hvars, kvars, serverKey, dvars, clock, ctx, desired, current,
                   file_name, stdout, stderr, exit_code, dev_log, entry_count>>
    /\ UNCHANGED <<cvars, svars>>

LrcExit == WithExit("lrc_exit", "returned")

\* the call is over and its frame is gone
Return ==
    /\ pc = "returned"
    /\ pc' = "idle"
    /\ ctx' = "none"
    /\ Frame({}, {}, -1, <<>>, <<>>, 0, -1)
    /\ outcome' = "none"
    /\ dev_log' = <<>>
    /\ entry_count' = 0
    /\ ran' = NoRun
    /\ sftp' = NoSftp
    /\ events' = <<>>
    /\ UNCHANGED <<hvars, kvars, serverKey, dvars, clock>>
    /\ UNCHANGED svars

Next ==
    \/ UserOpen \/ UserClose \/ UserEnter \/ UserExec \/ UserRun
    \/ UserWrite \/ UserRead \/ ServerRekey
    \/ get_config \/ GcEnter \/ GcExec \/ GcExit
    \/ LrcCall \/ LrcDiff \/ LrcEnter \/ LrcWrite \/ LrcExec \/ LrcVerify
    \/ LrcExit \/ Return

Spec == Init /\ [][Next]_vars

\* ---- for_hostname called by concurrent callers, statement by statement

\* a for_hostname that waits while another caller is inside its own call
ForHostnameCall_locked(p, h) ==
    /\ kpc[p] = "idle"
    /\ \A q \in Procs \ {p} : kpc[q] = "idle"
    /\ LET obj == Lookup(h, rows) IN
        /\ kobj' = [kobj EXCEPT ![p] = obj]
        /\ IF NeedsFetch(obj)
           THEN /\ kpc' = [kpc EXCEPT ![p] = "connect"]
                /\ sock' = [sock EXCEPT ![p] = "created"]
                /\ fetches' = [fetches EXCEPT ![p] = 1]
                /\ kres' = kres
           ELSE /\ kpc' = [kpc EXCEPT ![p] = "done"]
                /\ kres' = [kres EXCEPT ![p] = "ok"]
                /\ UNCHANGED <<sock, fetches>>
    /\ UNCHANGED <<rows, transport, koffer, saves, mvars>>

\* for_hostname(h) up to the first network operation: the lookup, and for an
\* object without a key the creation of get_fingerprint's socket
ForHostnameCall(p, h) ==
    /\ kpc[p] = "idle"
    /\ LET obj == Lookup(h, rows) IN
        /\ kobj' = [kobj EXCEPT ![p] = obj]
        /\ IF NeedsFetch(obj)
           THEN /\ kpc' = [kpc EXCEPT ![p] = "connect"]
                /\ sock' = [sock EXCEPT ![p] = "created"]
                /\ fetches' = [fetches EXCEPT ![p] = 1]
                /\ kres' = kres
           ELSE /\ kpc' = [kpc EXCEPT ![p] = "done"]
                /\ kres' = [kres EXCEPT ![p] = "ok"]
                /\ UNCHANGED <<sock, fetches>>
    /\ UNCHANGED <<rows, transport, koffer, saves, mvars>>

\* ssh_socket.connect, then entering the with block and creating the Transport
FingerprintConnect(p) ==
    /\ kpc[p] = "connect"
    /\ \E ok \in BOOLEAN :
        IF ok
        THEN /\ sock' = [sock EXCEPT ![p] = "connected"]
             /\ transport' = [transport EXCEPT ![p] = "open"]
             /\ kpc' = [kpc EXCEPT ![p] = "handshake"]
             /\ kres' = kres
        ELSE /\ kres' = [kres EXCEPT ![p] = "socket.error"]
             /\ kpc' = [kpc EXCEPT ![p] = FetchNext("socket.error")]
             /\ UNCHANGED <<sock, transport>>
    /\ UNCHANGED <<rows, kobj, koffer, fetches, saves, mvars>>

\* start_client and get_remote_server_key inside try/finally, the end of the
\* with block, and the assignment of the printable key to self.host_key
FingerprintHandshake(p) ==
    /\ kpc[p] = "handshake"
    /\ \E offered \in Offers :
        LET algo == Negotiate(offered)
            res == IF algo = NoAlgo THEN "SSHException" ELSE "ok"
        IN  /\ koffer' = [koffer EXCEPT ![p] = offered]
            /\ kobj' = [kobj EXCEPT ![p].host_key =
                            IF res = "ok" THEN KeyText(algo) ELSE @]
            /\ kres' = [kres EXCEPT ![p] = IF res = "ok" THEN @ ELSE res]
            /\ kpc' = [kpc EXCEPT ![p] = FetchNext(res)]
    /\ transport' = [transport EXCEPT ![p] = "closed"]
    /\ sock' = [sock EXCEPT ![p] = "closed"]
    /\ UNCHANGED <<rows, fetches, saves, mvars>>

\* self.save(): UPDATE of the row the object was read from, or INSERT
FetchSave(p) ==
    /\ kpc[p] = "save"
    /\ saves' = [saves EXCEPT ![p] = @ + 1]
    /\ kpc' = [kpc EXCEPT ![p] = "done"]
    /\ LET obj == kobj[p] IN
        IF obj.pk # 0
        THEN /\ rows' = {r \in rows : r.pk # obj.pk} \cup {obj}
             /\ kres' = [kres EXCEPT ![p] = "ok"]
             /\ kobj' = kobj
        ELSE IF Insertable(obj, rows)
        THEN LET row == [obj EXCEPT !.pk = Cardinality(rows) + 1] IN
             /\ rows' = rows \cup {row}
             /\ kobj' = [kobj EXCEPT ![p] = row]
             /\ kres' = [kres EXCEPT ![p] = "ok"]
        ELSE /\ kres' = [kres EXCEPT ![p] = "IntegrityError"]
             /\ UNCHANGED <<rows, kobj>>
    /\ UNCHANGED <<sock, transport, koffer, fetches, mvars>>

\* the call is over: the caller has its key or its exception
ForHostnameReturn(p) ==
    /\ kpc[p] = "done"
    /\ kpc' = [kpc EXCEPT ![p] = "idle"]
    /\ kobj' = [kobj EXCEPT ![p] = NewHostKey("")]
    /\ kres' = [kres EXCEPT ![p] = "none"]
    /\ sock' = [sock EXCEPT ![p] = "none"]
    /\ transport' = [transport EXCEPT ![p] = "none"]
    /\ koffer' = [koffer EXCEPT ![p] = {}]
    /\ fetches' = [fetches EXCEPT ![p] = 0]
    /\ saves' = [saves EXCEPT ![p] = 0]
    /\ UNCHANGED <<rows, mvars>>

\* a row created without a key, as the admin form or a fixture does
BlankRows == {[pk |-> 1, hostname |-> "router1", host_key |-> NoKey]}

StoreInit ==
    /\ MainInit
    /\ serverKey = KeyText("ssh-rsa")
    /\ devConfig = {}
    /\ rows \in {{}, BlankRows}
    /\ StoreIdle

StoreNext ==
    \/ \E p \in Procs, h \in Hosts : ForHostnameCall(p, h)
    \/ \E p \in Procs : FingerprintConnect(p)
    \/ \E p \in Procs : FingerprintHandshake(p)
    \/ \E p \in Procs : FetchSave(p)
    \/ \E p \in Procs : ForHostnameReturn(p)

StoreSpec == StoreInit /\ [][StoreNext]_vars

\* ---------------------------------------------------------------- claims
Driver == {"get_config", "load_replace_candidate"}
ConnectFailures == {"AuthenticationException", "BadHostKeyException"}

\* a step that is one acquire (open() or a with-block entry) on the handle
Acquire ==
    \/ pc = "idle" /\ pc' = "returned" /\ ctx' \in {"open", "enter"}
    \/ pc \in {"gc_enter", "lrc_enter"}

\* a step that is one release (close() or a with-block exit) on the handle
Release ==
    \/ pc = "idle" /\ pc' = "returned" /\ ctx' = "close"
    \/ pc \in {"gc_exit", "lrc_exit"}

AcquireOk == Acquire /\ (IF pc = "idle" THEN outcome' = "ok" ELSE pc' # "returned")

NoneOpen == \A i \in ClientIds : conn[i] # "open"

\* C1: in properly nested acquire/release on one handle the connection is
\* opened only by the first acquire (0 -> 1) and closed only by the last
\* release (1 -> 0): an acquire made while an outer acquire holds the open
\* connection opens nothing, and a release that leaves the count above zero
\* closes nothing.
C1_OpenedOnceClosedOnce ==
    [][/\ (AcquireOk /\ open_count = 0 /\ NoneOpen) =>
              Cardinality({i \in ClientIds : conn'[i] = "open"}) = 1
       /\ (AcquireOk /\ open_count >= 1 /\ Usable) => conn' = conn
       /\ (Release /\ open_count > 1 /\ Usable) => conn' = conn
       /\ (Release /\ open_count = 1 /\ Usable) =>
              \A i \in ClientIds : conn'[i] # "open"]_vars

\* C2: between calls on a handle, it holds an open connection exactly when
\* its open count is above zero.
C2_ConnectionIffCount ==
    (pc = "idle" /\ host_key # NoKey) => (Usable <=> open_count > 0)

\* C3: an acquire that fails in connect (host key or authentication) leaves
\* the open count as it was and leaves no client object of the failed
\* attempt on the handle.
C3_FailedAcquireRollsBack ==
    [][(Acquire /\ outcome' \in ConnectFailures) =>
          /\ open_count' = open_count
          /\ (client' = 0 \/ conn'[client'] # "failed")]_vars

\* C4: close() on a handle whose open count is 0 raises, and leaves the
\* count at 0.
C4_ReleaseAtZeroSignalled ==
    (pc = "returned" /\ ctx = "close" /\ entry_count = 0) =>
        (outcome # "ok" /\ open_count = 0)

\* C5: exec, run, write_file and read_file on a handle that holds no open
\* connection (here: a handle given its host key, none of whose connections
\* is open) raise SshClientNotOpen and change neither the handle nor the
\* device.
C5_NotOpenRaises ==
    [][(/\ pc = "idle" /\ pc' = "returned"
        /\ ctx' \in {"exec", "run", "write_file", "read_file"}
        /\ host_key # NoKey
        /\ NoneOpen) =>
          /\ outcome' = "SshClientNotOpen"
          /\ UNCHANGED <<open_count, client, conn, files>>]_vars

\* C6: when get_config or load_replace_candidate is over, on whatever path,
\* the open count is what it was when the call began, and a handle that
\* was closed then holds no open connection.
C6_SessionReleasedOnEveryExit ==
    (pc = "returned" /\ ctx \in Driver) =>
        /\ open_count = entry_count
        /\ (entry_count = 0 => ~Usable)

\* C7: when the desired configuration has no section that differs from the
\* current one, load_replace_candidate returns without error at once:
\* nothing is uploaded, no script is executed, nothing is verified, and
\* neither the device nor the handle is touched.
C7_EmptyDiffIsNoOp ==
    [][(pc = "lrc_diff" /\ desired = current) =>
          /\ pc' = "returned"
          /\ outcome' = "ok"
          /\ dev_log' = dev_log
          /\ \A i \in DOMAIN dev_log' : dev_log'[i] \notin {"write", "import"}
          /\ file_name' = -1
          /\ UNCHANGED <<open_count, client, conn, files, devConfig>>]_vars

C7_Witness ==
    /\ pc = "returned"
    /\ ctx = "load_replace_candidate"
    /\ outcome = "ok"
    /\ file_name = -1
    /\ dev_log = <<"export">>

\* C8: when the import's standard output carries the success marker,
\* load_replace_candidate returns normally and the script file it uploaded
\* is no longer on the device.
C8_SuccessLeavesNoFile ==
    (pc = "returned" /\ ctx = "load_replace_candidate" /\ Contains(stdout, Marker)) =>
        /\ outcome = "ok"
        /\ ~files[file_name].present

C8_Witness ==
    /\ pc = "returned"
    /\ ctx = "load_replace_candidate"
    /\ Contains(stdout, Marker)
    /\ outcome = "ok"
    /\ dev_log = <<"write", "import">>
    /\ ~files[file_name].present

\* C9: when the import's standard output lacks the success marker,
\* load_replace_candidate raises an error naming the uploaded file, sends
\* the device nothing after the import, and the file is still on the device.
C9_FailureKeepsFile ==
    (/\ pc = "returned" /\ ctx = "load_replace_candidate"
     /\ Len(dev_log) > 0 /\ dev_log[Len(dev_log)] = "import"
     /\ ~Contains(stdout, Marker)) =>
        /\ outcome = "CommandErrorException"
        /\ err_file = file_name
        /\ files[file_name].present
        /\ files[file_name].data = Script(Diff(desired, current), file_name)

C9_Witness ==
    /\ pc = "returned"
    /\ ctx = "load_replace_candidate"
    /\ dev_log = <<"write", "import">>
    /\ ~Contains(stdout, Marker)
    /\ outcome = "CommandErrorException"
    /\ err_file = file_name
    /\ files[file_name].present

\* C10: once the import has run, the deployment succeeds exactly when the
\* captured standard output contains SUCCESS, whatever the exit status and
\* the standard error are.
C10_OutcomeFromStdoutAlone ==
    (/\ pc \in {"lrc_exit", "returned"} /\ ctx = "load_replace_candidate"
     /\ Len(dev_log) > 0 /\ dev_log[Len(dev_log)] = "import") =>
        (outcome = "ok" <=> Contains(stdout, Marker))

C10_Witness ==
    /\ pc = "returned"
    /\ ctx = "load_replace_candidate"
    /\ Contains(stdout, Marker)
    /\ exit_code # 0
    /\ stderr # <<>>
    /\ outcome = "ok"

\* ------------------------------------------------- the host-key store

KeyedRow(h, rs) == \E r \in rs : r.hostname = h /\ r.host_key # NoKey

InFlight == {"connect", "handshake", "save"}

AllowList == {"ecdsa-sha2-nistp256", "ecdsa-sha2-nistp384",
              "ecdsa-sha2-nistp521", "ssh-rsa"}

\* C11: for_hostname fetches the key from the network exactly when the
\* table holds no row with a key for the hostname. A call that finds a keyed
\* row returns that row as stored, without a fetch and without a write; a
\* call that fetched and returned has made one fetch and one save, and the
\* row it returns is in the table with the fetched key.
C11_FetchExactlyWhenNoKey ==
    [][\A p \in Procs :
        /\ (kpc[p] = "idle" /\ kpc'[p] # "idle") =>
              IF KeyedRow(kobj'[p].hostname, rows)
              THEN /\ kpc'[p] = "done" /\ kres'[p] = "ok"
                   /\ fetches'[p] = 0 /\ saves'[p] = 0
                   /\ kobj'[p] \in rows /\ rows' = rows
              ELSE /\ kpc'[p] = "connect" /\ fetches'[p] = 1
        /\ (kpc[p] = "save" /\ kres'[p] = "ok") =>
              /\ fetches'[p] = 1 /\ saves'[p] = 1
              /\ kobj'[p].host_key # NoKey
              /\ kobj'[p] \in rows']_vars

C11_Witness ==
    \E p \in Procs :
        /\ kpc[p] = "done" /\ kres[p] = "ok" /\ fetches[p] = 0
        /\ kobj[p] \in rows /\ kobj[p].host_key # NoKey

\* C12: when the fetch fails (connect refused or timed out, handshake
\* failed), for_hostname ends there with the error: the table is not
\* written, by that step or by anything the call does afterwards.
C12_FailedFetchWritesNothing ==
    [][\A p \in Procs :
        /\ (kres[p] = "none" /\ kres'[p] \in FetchErrors) =>
              kpc'[p] = "done" /\ rows' = rows /\ saves'[p] = 0
        /\ kres[p] \in FetchErrors =>
              kpc'[p] \in {"done", "idle"} /\ saves'[p] = 0]_vars

C12_Witness ==
    \E p \in Procs :
        /\ kpc[p] = "done" /\ kres[p] = "SSHException" /\ saves[p] = 0
        /\ kobj[p] \in rows /\ kobj[p].host_key = NoKey

\* C13: the table never holds two rows for one hostname, whatever the
\* interleaving of the callers.
C13_OneRowPerHostname ==
    \A r1 \in rows, r2 \in rows : r1.hostname = r2.hostname => r1 = r2

C13_Witness ==
    \E p \in Procs :
        /\ kres[p] = "IntegrityError"
        /\ Cardinality({r \in rows : r.hostname = kobj[p].hostname}) = 1

\* C14: the lookup takes no lock. Whenever a caller is between its own
\* lookup and its save for a hostname that has no row yet, another caller
\* can make its lookup for the same hostname at once, and that lookup finds
\* no row either and goes on to fetch, so that both fetch and both call
\* save().
C14_NoMutualExclusion ==
    \A p \in Procs, q \in Procs :
        (/\ p # q
         /\ kpc[p] = "idle"
         /\ kpc[q] \in InFlight /\ kobj[q].pk = 0
         /\ \A r \in rows : r.hostname # kobj[q].hostname) =>
            ENABLED (/\ ForHostnameCall(p, kobj[q].hostname)
                     /\ kpc'[p] = "connect"
                     /\ kobj'[p].pk = 0
                     /\ fetches'[p] = 1)

C14_Witness ==
    /\ \A p \in Procs : kpc[p] = "done" /\ fetches[p] = 1 /\ saves[p] = 1
    /\ kobj["p1"].hostname = kobj["p2"].hostname
    /\ \E p \in Procs : kres[p] = "IntegrityError"

\* C15: when the key the server presents is not the key the handle holds,
\* an acquire ends with a connection error raised before authentication
\* (no password, no private key signature was sent) and the handle's client
\* is not a usable session.
C15_WrongHostKeyNeverAuthenticates ==
    [][(Acquire /\ host_key' # NoKey /\ host_key' # serverKey) =>
          /\ pc' = "returned"
          /\ outcome' \in {"BadHostKeyException", "SocketError"}
          /\ ~CredentialsSent(outcome')
          /\ ~Usable']_vars

C15_Witness ==
    /\ pc = "returned" /\ ctx = "enter" /\ outcome = "BadHostKeyException"
    /\ host_key # NoKey /\ host_key # serverKey /\ ~Usable

\* C16: a fetch from a server that offers no algorithm of the allow-list
\* ends with an error and no key; a key that a fetch returned, and so every
\* key in the table, has an algorithm of the allow-list.
C16_OnlyAllowedAlgorithms ==
    /\ \A p \in Procs :
        /\ (koffer[p] # {} /\ koffer[p] \cap AllowList = {}) =>
              kres[p] = "SSHException" /\ kobj[p].host_key = NoKey
        /\ kobj[p].host_key # NoKey => KeyType(kobj[p].host_key) \in AllowList
    /\ \A r \in rows : r.host_key # NoKey => KeyType(r.host_key) \in AllowList

C16_Witness ==
    \E p \in Procs :
        /\ koffer[p] = {"ssh-ed25519"}
        /\ kpc[p] = "done" /\ kres[p] = "SSHException"

\* C17: once get_fingerprint is over, however it ended, its socket is
\* closed and its transport, if one was created, is closed.
C17_FetchLeavesNothingOpen ==
    \A p \in Procs :
        (kpc[p] \in {"save", "done"} /\ fetches[p] = 1) =>
            sock[p] = "closed" /\ transport[p] # "open"

\* ------------------------------------------------- commands and transfers

\* C18: run() on an open session returns the stripped lines of stdout when
\* the exit status is 0 or raise_exceptions is off; otherwise it raises
\* SshCommandException with stderr, or with stdout when stderr is empty.
C18_RunReturnsOrRaises ==
    (pc = "returned" /\ ctx = "run" /\ ran.exec = "ok") =>
        IF ran.status = 0 \/ ~ran.raise_exceptions
        THEN /\ outcome = "ok"
             /\ ran.lines = run_lines(ran.stdout)
             /\ \A i \in 1 .. Len(ran.lines) : ran.lines[i] = Strip(ran.lines[i])
        ELSE /\ outcome = "SshCommandException"
             /\ ran.error = (IF ran.stderr = <<>> THEN ran.stdout ELSE ran.stderr)

C18_Witness ==
    /\ pc = "returned" /\ ctx = "run" /\ ran.exec = "ok"
    /\ outcome = "SshCommandException"
    /\ ran.stderr = <<>> /\ ran.stdout # <<>> /\ ran.error = ran.stdout

\* C19: a write_file or read_file call on an open session closes the one
\* SFTP channel it opened, whether the transfer succeeded or raised, and
\* leaves the open count and the connection as they were.
C19_TransferChannelClosed ==
    [][(/\ pc \in {"idle", "lrc_write"}
        /\ pc = "idle" => (pc' = "returned" /\ ctx' \in {"write_file", "read_file"})
        /\ Usable /\ assert_open) =>
          /\ sftp'.opened = sftp'.closed
          /\ (pc = "idle" /\ outcome' \in {"ok", "IOError"}) => sftp'.opened = 1
          /\ UNCHANGED <<open_count, client, conn>>]_vars

C19_Witness ==
    /\ pc = "returned" /\ ctx = "write_file" /\ outcome = "IOError"
    /\ sftp = [opened |-> 1, closed |-> 1]

\* C20: the open count is never negative.
C20_OpenCountNeverNegative == open_count >= 0

\* ------------------------------------------------- the deployment's steps

IsPrefix(a, b) == Len(a) <= Len(b) /\ a = SubSeq(b, 1, Len(a))

NotLookup(e) == e # "lookup"

\* the steps made since the script was built, host-key lookups left out
Deploy ==
    IF \E i \in DOMAIN events : events[i] = "script"
    THEN SelectSeq(SubSeq(events,
                          (CHOOSE i \in DOMAIN events : events[i] = "script") + 1,
                          Len(events)),
                   NotLookup)
    ELSE <<>>

FullDeploy == <<"acquire", "write", "import", "verify", "release">>

\* the deployments that are over
EndedDeploys ==
    {<<>>, <<"acquire">>, <<"acquire", "release">>,
     <<"acquire", "write", "release">>, FullDeploy}

\* C21: a load_replace_candidate with a non-empty diff acquires the session
\* once and then uploads, imports and verifies in that order, each at most
\* once: the import is sent only after a successful upload, a failed
\* acquire or upload ends the call with nothing but the release after it,
\* and nothing is tried a second time.
C21_UploadExecuteVerifyOnce ==
    ctx = "load_replace_candidate" =>
        /\ IsPrefix(Deploy, FullDeploy) \/ Deploy \in EndedDeploys
        /\ pc = "returned" => Deploy \in EndedDeploys
        /\ (pc = "returned" /\ Deploy # <<>> /\ outcome \notin {"ok", "CommandErrorException"}
            /\ Deploy # FullDeploy) =>
              \A i \in DOMAIN Deploy : Deploy[i] \notin {"import", "verify"}

C21_Witness ==
    /\ ctx = "load_replace_candidate" /\ pc = "returned"
    /\ outcome = "IOError"
    /\ Deploy = <<"acquire", "release">>

\* C22: a load_replace_candidate that is given a current configuration
\* goes straight to the diff with that configuration: it acquires no
\* session and sends no export.
C22_SuppliedCurrentNotFetched ==
    [][\A f \in {NoArg} \cup DOMAIN LocalFiles, c \in OptConfigs,
          cc \in OptConfigs \ {None} :
          (load_replace_candidate(f, c, cc) /\ outcome' # "ValueError") =>
              /\ pc' = "lrc_diff"
              /\ current' = Text(cc)
              /\ UNCHANGED <<open_count, client, conn, host_key, store>>]_vars

\* C23: the file a deployment has uploaded holds the diff, then the removal
\* of a file, then the success marker, and the file removed is the file the
\* script was written under, which is the file about to be imported.
C23_ScriptRemovesItself ==
    /\ \A n \in FileNames :
          (files[n].present /\ files[n].data # <<>>) =>
              /\ Len(files[n].data) = 3
              /\ files[n].data[1].cmd = "apply"
              /\ files[n].data[2] = Cmd("remove", {}, {}, n, "")
              /\ files[n].data[3] = Cmd("put", {}, {}, 0, Marker)
    /\ pc = "lrc_exec" =>
          /\ files[file_name].present
          /\ files[file_name].data[1] =
                Cmd("apply", desired \ current, current \ desired, 0, "")
          /\ files[file_name].data[2].file = file_name

C23_Witness ==
    /\ pc = "lrc_exec"
    /\ files[file_name].present
    /\ files[file_name].data[2] = Cmd("remove", {}, {}, file_name, "")
    /\ files[file_name].data[1].add # {}

\* C24: a save() by a caller that found no row, made when a row for the
\* hostname has been inserted meanwhile, is refused: the table is left as it
\* is, with the key saved first, and the call ends with IntegrityError.
C24_SecondSaveRefused ==
    [][\A p \in Procs :
        (/\ kpc[p] = "save" /\ kpc'[p] = "done"
         /\ kobj[p].pk = 0
         /\ \E r \in rows : r.hostname = kobj[p].hostname) =>
            rows' = rows /\ kres'[p] = "IntegrityError"]_vars

C24_Witness ==
    \E p \in Procs, r \in rows :
        /\ kpc[p] = "done" /\ kres[p] = "IntegrityError"
        /\ r.hostname = kobj[p].hostname
        /\ r.host_key # NoKey /\ r.host_key # kobj[p].host_key

\* C25: a with-block entry on a handle without a host key whose key lookup
\* fails leaves the handle as it was: the open count, the client and its
\* connections and the (unset) host key are unchanged, and no open() was
\* attempted.
C25_FailedLookupTouchesNothing ==
    [][(/\ \/ pc = "idle" /\ pc' = "returned" /\ ctx' = "enter"
           \/ pc \in {"gc_enter", "lrc_enter"}
        /\ host_key = NoKey
        /\ outcome' = "FetchError") =>
          /\ UNCHANGED <<open_count, client, conn, host_key, store>>
          /\ pc # "idle" => events' = Append(events, "lookup")]_vars

C25_Witness ==
    /\ pc = "returned" /\ ctx \in Driver /\ outcome = "FetchError"
    /\ host_key = NoKey /\ open_count = entry_count
    /\ events[Len(events)] = "lookup"

\* C26: load_replace_candidate called with neither a file name nor a
\* configuration raises ValueError at once: nothing is looked up, acquired
\* or sent, and the handle and the device are as they were.
C26_NoInputRaisesBeforeContact ==
    [][\A cc \in OptConfigs :
          load_replace_candidate(NoArg, None, cc) =>
              /\ pc' = "returned"
              /\ outcome' = "ValueError"
              /\ events' = <<>> /\ dev_log' = <<>>
              /\ UNCHANGED <<open_count, client, conn, host_key, store, files,
                             devConfig>>]_vars

C26_Witness ==
    /\ pc = "returned" /\ ctx = "load_replace_candidate"
    /\ outcome = "ValueError"
    /\ events = <<>> /\ open_count = entry_count

====
